---- MODULE Spec2Model ----
(***************************************************************************)
(* Model of the CBOR command encoder of ArduinoIoTCloud                    *)
(* (src/src/cbor/MessageEncoder.cpp) over the command data model           *)
(* (src/unnamed/part_001).                                                 *)
(*                                                                         *)
(* One behaviour is a series of calls of CBORMessageEncoder::encode.  Each *)
(* call is modelled step by step: encode_call picks the arguments and      *)
(* runs the prologue, each iteration of the state loop is one action       *)
(* (handle_EncodeTag, handle_EncodeArray, handle_EncodeParam,              *)
(* handle_CloseArray) and encode_return is the exit of the loop.           *)
(*                                                                         *)
(* Bytes are naturals 0..255, buffers are sequences of bytes, and a 64 bit *)
(* unsigned value is the sequence of its 8 bytes, most significant first,  *)
(* as the encoder library lays it out before it strips the leading zeros.  *)
(*                                                                         *)
(* The module also models the MQTT side of ArduinoIoTCloudClass            *)
(* (src/src/ArduinoIoTCloud.cpp): update, mqttReconnect and connect, with  *)
(* the MQTT client and the clock as the environment.                       *)
(***************************************************************************)
EXTENDS Integers, Sequences, FiniteSets, TLC

(***************************************************************************)
(* Program constants (src/unnamed/part_001, src/src/cbor/MessageEncoder.cpp)*)
(***************************************************************************)
THING_ID_SIZE == 37
SHA256_SIZE == 32
ID_SIZE == 16
MAX_LIB_VERSION_SIZE == 10
UHWID_SIZE == 32
PROVISIONING_JWT_SIZE == 246
MAX_WIFI_NETWORKS == 20
BLE_MAC_ADDRESS_SIZE == 6

(***************************************************************************)
(* Bounds of the model                                                     *)
(***************************************************************************)
\* encode calls made in one behaviour
MaxCalls == 2
\* bytes a read that runs past the end of an array can see before it stops
MaxOverread == 2
\* the largest buffer capacity tried besides the small ones
MaxCapacity == 600
\* encode calls made in one behaviour whose results are compared
MaxComparedCalls == 3
\* update calls made in one behaviour
MaxUpdates == 2
\* calls of begin and reconnect made in one behaviour
MaxBegins == 3

(***************************************************************************)
(* Bytes and 64 bit values                                                 *)
(***************************************************************************)
Zeros(n) == [i \in 1..n |-> 0]

Fill(b, n) == [i \in 1..n |-> b]

\* a char array of capacity cap holding the C string s (s has no 0 byte)
CStr(s, cap) == s \o Zeros(cap - Len(s))

\* put_be64 of a value below 2^31
U64(n) ==
  << 0, 0, 0, 0,
     (n \div 16777216) % 256, (n \div 65536) % 256, (n \div 256) % 256, n % 256 >>

(***************************************************************************)
(* The CBOR encoder library (tinycbor, cborencoder.c) as the encoder uses  *)
(* it.  A CborEncoder is a record: ptr is the write offset into the        *)
(* caller's buffer, end the offset of the end of the buffer or NULL once   *)
(* the buffer has overflowed, bytes_needed the bytes still missing when    *)
(* end is NULL, remaining the items the container still expects plus one.  *)
(* A context ctx is [enc, data, err, log]: the encoder written through,    *)
(* the bytes of the buffer written so far, the CborError of the last       *)
(* library call and the list of the item writes made.                      *)
(***************************************************************************)
NULL == -1

CborNoError == "CborNoError"

CborErrorOutOfMemory == "CborErrorOutOfMemory"

CborErrorIllegalSimpleType == "CborErrorIllegalSimpleType"

CborErrorTooManyItems == "CborErrorTooManyItems"

CborErrorTooFewItems == "CborErrorTooFewItems"

\* major types, already shifted by MajorTypeShift
UnsignedIntegerType == 0

NegativeIntegerType == 32

ByteStringType == 64

TextStringType == 96

ArrayType == 128

TagType == 192

SimpleTypesType == 224

cbor_encoder_init(size) ==
  [ptr |-> 0, end |-> size, bytes_needed |-> 0, remaining |-> 2]

would_overflow(enc, len) ==
  LET remaining == IF enc.end # NULL THEN enc.end - enc.ptr ELSE 0 - enc.bytes_needed
  IN  remaining - len < 0

\* appends bytes at enc.ptr, or counts them as needed once they do not fit
append_to_buffer(ctx, bytes) ==
  LET enc == ctx.enc
      len == Len(bytes)
  IN  IF would_overflow(enc, len)
      THEN [ctx EXCEPT
              !.enc = IF enc.end # NULL
                      THEN [enc EXCEPT !.end = NULL,
                                       !.bytes_needed = len - (enc.end - enc.ptr)]
                      ELSE [enc EXCEPT !.bytes_needed = enc.bytes_needed + len],
              !.err = CborErrorOutOfMemory]
      ELSE [ctx EXCEPT
              !.enc = [enc EXCEPT !.ptr = enc.ptr + len],
              !.data = SubSeq(ctx.data, 1, enc.ptr) \o bytes,
              !.err = CborNoError]

saturated_decrement(enc) ==
  IF enc.remaining > 0 THEN [enc EXCEPT !.remaining = enc.remaining - 1] ELSE enc

\* the initial byte and the argument bytes of a CBOR head: ui is 8 bytes, big endian
HeadBytes(ui, shiftedMajorType) ==
  LET gt8  == \E i \in 1..7 : ui[i] # 0
      gt16 == \E i \in 1..6 : ui[i] # 0
      gt32 == \E i \in 1..4 : ui[i] # 0
      more == (IF gt8 THEN 1 ELSE 0) + (IF gt16 THEN 1 ELSE 0) + (IF gt32 THEN 1 ELSE 0)
      n    == 2 ^ more
  IN  IF ~gt8 /\ ui[8] < 24
      THEN << ui[8] + shiftedMajorType >>
      ELSE << shiftedMajorType + 24 + more >> \o SubSeq(ui, 9 - n, 8)

encode_number_no_update(ctx, ui, shiftedMajorType) ==
  append_to_buffer(ctx, HeadBytes(ui, shiftedMajorType))

encode_number(ctx, ui, shiftedMajorType) ==
  encode_number_no_update([ctx EXCEPT !.enc = saturated_decrement(ctx.enc)],
                          ui, shiftedMajorType)

Logged(ctx, fn, length, bytes) ==
  [ctx EXCEPT !.log = Append(ctx.log, [fn |-> fn, length |-> length,
                                        bytes |-> bytes, err |-> ctx.err])]

\* tags do not count towards the number of elements of the array
cbor_encode_tag(ctx, tag) == encode_number_no_update(ctx, tag, TagType)

cbor_encode_uint(ctx, value) ==
  Logged(encode_number(ctx, value, UnsignedIntegerType), "uint", 0, value)

\* value is a signed integer; a negative n is written as -1 - n, major type 1
cbor_encode_int(ctx, value) ==
  Logged(IF value < 0
         THEN encode_number(ctx, U64((0 - 1) - value), NegativeIntegerType)
         ELSE encode_number(ctx, U64(value), UnsignedIntegerType),
         "int", 0, << value >>)

cbor_encode_simple_value(ctx, value) ==
  Logged(IF value >= 25 /\ value <= 31
         THEN [ctx EXCEPT !.err = CborErrorIllegalSimpleType]
         ELSE encode_number(ctx, U64(value), SimpleTypesType),
         "simple_value", 0, << value >>)

\* the head with the length, then the length bytes of the string
encode_string(ctx, length, shiftedMajorType, string) ==
  append_to_buffer(encode_number(ctx, U64(length), shiftedMajorType), string)

cbor_encode_byte_string(ctx, string, length) ==
  Logged(encode_string(ctx, length, ByteStringType, string), "byte_string", length, string)

cbor_encode_text_string(ctx, string, length) ==
  Logged(encode_string(ctx, length, TextStringType, string), "text_string", length, string)

\* create_container: the container starts where the encoder stands and the
\* array itself is one item of the encoder
cbor_encoder_create_array(encoder, data, length) ==
  LET container == [ptr |-> encoder.ptr, end |-> encoder.end,
                    bytes_needed |-> encoder.bytes_needed, remaining |-> length + 1]
      c == encode_number_no_update([enc |-> container, data |-> data,
                                    err |-> CborNoError, log |-> << >>],
                                   U64(length), ArrayType)
  IN  [encoder |-> saturated_decrement(encoder), container |-> c.enc,
       data |-> c.data, err |-> c.err]

cbor_encoder_close_container(encoder, containerEncoder) ==
  LET enc == [encoder EXCEPT
                !.ptr = IF encoder.end # NULL THEN containerEncoder.ptr ELSE encoder.ptr,
                !.bytes_needed = IF encoder.end # NULL THEN encoder.bytes_needed
                                 ELSE containerEncoder.bytes_needed,
                !.end = containerEncoder.end]
  IN  [encoder |-> enc,
       err |-> IF containerEncoder.remaining # 1
               THEN (IF containerEncoder.remaining = 0
                     THEN CborErrorTooManyItems ELSE CborErrorTooFewItems)
               ELSE IF enc.end = NULL THEN CborErrorOutOfMemory
               ELSE CborNoError]

cbor_encoder_get_buffer_size(encoder) == encoder.ptr

(***************************************************************************)
(* The command data model (src/unnamed/part_001)                           *)
(***************************************************************************)
\* enum CommandId, in declaration order; ProvisioningBLEMacAddress is the id
\* the encoder switches on besides those
CommandIds ==
  { "DeviceBeginCmdId", "ThingBeginCmdId", "ThingUpdateCmdId", "ThingDetachCmdId",
    "DeviceRegisteredCmdId", "DeviceAttachedCmdId", "DeviceDetachedCmdId",
    "LastValuesBeginCmdId", "LastValuesUpdateCmdId", "PropertiesUpdateCmdId",
    "ResetCmdId",
    "OtaBeginUpId", "OtaProgressCmdUpId", "OtaUpdateCmdDownId",
    "TimezoneCommandUpId", "TimezoneCommandDownId",
    "UnknownCmdId",
    "ProvisioningStatus", "ProvisioningListWifiNetworks", "ProvisioningUniqueHardwareId",
    "ProvisioningJWT", "ProvisioningTimestamp", "ProvisioningCommands",
    "ProvisioningWifiConfig", "ProvisioningLoRaConfig", "ProvisioningGSMConfig",
    "ProvisioningNBIOTConfig", "ProvisioningCATM1Config", "ProvisioningEthernetConfig",
    "ProvisioningCellularConfig",
    "ProvisioningBLEMacAddress" }

\* struct DeviceBeginCmd: char lib_version[MAX_LIB_VERSION_SIZE], a C string
DeviceBeginCmd ==
  { [lib_version |-> CStr(s, MAX_LIB_VERSION_SIZE)] :
      s \in { << >>, << 50, 46, 49 >>, Fill(57, MAX_LIB_VERSION_SIZE - 1) } }

\* struct ThingBeginCmd: char thing_id[THING_ID_SIZE], a C string
ThingBeginCmd ==
  { [thing_id |-> CStr(s, THING_ID_SIZE)] :
      s \in { << >>, << 116 >>, Fill(97, 23), Fill(102, THING_ID_SIZE - 1) } }

\* struct OtaBeginUp: uint8_t sha[SHA256_SIZE]
OtaBeginUp ==
  { [sha |-> b] :
      b \in { Zeros(SHA256_SIZE), Fill(255, SHA256_SIZE),
              [i \in 1..SHA256_SIZE |-> (7 * i) % 256] } }

\* struct OtaProgressCmdUp: id, state (uint8_t), state_data (int32_t), time (uint64_t)
OtaProgressCmdUp ==
  { [id |-> [i \in 1..ID_SIZE |-> (i * s) % 256], state |-> s, state_data |-> d, time |-> t] :
      s \in { 0, 24, 25, 255 },
      d \in { -25, 70000 },
      t \in { U64(0), << 0, 0, 1, 140, 191, 234, 16, 0 >>, Fill(255, 8) } }

\* struct ProvisioningStatusMessage: int16_t status
ProvisioningStatusMessage ==
  { [status |-> v] : v \in { 0, 23, 24, -1, -24, -25, 255, 256, -257, 32767, -32768 } }

\* struct WiFiNetwork: SSID points to a C string, RSSI to an int
WiFiNetwork(s, r) == [SSID |-> s \o << 0 >>, RSSI |-> r]

\* discoveredWifiNetworks[MAX_WIFI_NETWORKS]: every slot holds an entry here
WifiTables ==
  { [i \in 1..MAX_WIFI_NETWORKS |-> WiFiNetwork(Fill(64 + i, 1 + (i % 3)), (0 - 30) - i)],
    [i \in 1..MAX_WIFI_NETWORKS |->
       WiFiNetwork(IF i % 2 = 0 THEN << >> ELSE Fill(48 + i, 32), 3 * i - 30)] }

\* uint8_t numDiscoveredWiFiNetworks: the values tried, among 0..255
NumNetworksTried == { 0, 1, 2, 3, 11, 12, MAX_WIFI_NETWORKS, MAX_WIFI_NETWORKS + 1, 255 }

\* struct ProvisioningListWifiNetworksMessage
ProvisioningListWifiNetworksMessage ==
  { [discoveredWifiNetworks |-> t, numDiscoveredWiFiNetworks |-> n] :
      t \in WifiTables, n \in NumNetworksTried }

\* struct ProvisioningUniqueHardwareIdMessage: char uniqueHardwareId[UHWID_SIZE],
\* not null terminated
ProvisioningUniqueHardwareIdMessage ==
  { [uniqueHardwareId |-> b] :
      b \in { Fill(65, UHWID_SIZE), Zeros(UHWID_SIZE), CStr(<< 65, 66, 67 >>, UHWID_SIZE),
              << 0 >> \o Fill(66, UHWID_SIZE - 1) } }

\* struct ProvisioningJWTMessage: char jwt[PROVISIONING_JWT_SIZE], not null terminated
ProvisioningJWTMessage ==
  { [jwt |-> b] :
      b \in { Fill(101, PROVISIONING_JWT_SIZE), Zeros(PROVISIONING_JWT_SIZE),
              CStr(Fill(101, 5), PROVISIONING_JWT_SIZE),
              CStr(Fill(101, PROVISIONING_JWT_SIZE - 1), PROVISIONING_JWT_SIZE),
              Fill(101, 9) \o << 0 >> \o Fill(74, PROVISIONING_JWT_SIZE - 10) } }

\* the message with a macAddress[BLE_MAC_ADDRESS_SIZE] that the encoder reads
ProvisioningBLEMacAddressMessage ==
  { [macAddress |-> b] :
      b \in { Zeros(BLE_MAC_ADDRESS_SIZE), Fill(255, BLE_MAC_ADDRESS_SIZE),
              << 0, 0, 0, 0, 0, 1 >>, << 2, 0, 0, 0, 0, 0 >>, << 0, 0, 7, 0, 0, 0 >> } }

\* no parameters, or parameters the encoder never reads
NoParams == { [none |-> TRUE] }

\* the parameter groups tried for a command id
ParamsOf(id) ==
  CASE id = "DeviceBeginCmdId" -> DeviceBeginCmd
    [] id = "ThingBeginCmdId" -> ThingBeginCmd
    [] id = "OtaBeginUpId" -> OtaBeginUp
    [] id = "OtaProgressCmdUpId" -> OtaProgressCmdUp
    [] id = "ProvisioningStatus" -> ProvisioningStatusMessage
    [] id = "ProvisioningListWifiNetworks" -> ProvisioningListWifiNetworksMessage
    [] id = "ProvisioningUniqueHardwareId" -> ProvisioningUniqueHardwareIdMessage
    [] id = "ProvisioningJWT" -> ProvisioningJWTMessage
    [] id = "ProvisioningBLEMacAddress" -> ProvisioningBLEMacAddressMessage
    [] OTHER -> NoParams

\* typedef Command Message: the header id and the parameter group behind it
Message(id, params) == [id |-> id, params |-> params]

NoMessage == Message("UnknownCmdId", [none |-> TRUE])

(***************************************************************************)
(* The tag table                                                           *)
(***************************************************************************)
CBORUnknownCmdTag16b == << 0, 0, 0, 0, 0, 0, 255, 255 >>

CBORUnknownCmdTag32b == << 0, 0, 0, 0, 255, 255, 255, 255 >>

CBORUnknownCmdTag64b == Fill(255, 8)

UnknownCmdTags == { CBORUnknownCmdTag16b, CBORUnknownCmdTag32b, CBORUnknownCmdTag64b }

\* The wire tags an id can resolve to.  An id of a message that travels on the
\* wire has one tag, 0x01xxxx; any other id resolves to an unknown-tag
\* sentinel, and which of the three is left open.
toCBORCommandTag(id) ==
  CASE id = "OtaBeginUpId" -> { U64(65536) }
    [] id = "OtaUpdateCmdDownId" -> { U64(65792) }
    [] id = "OtaProgressCmdUpId" -> { U64(66048) }
    [] id = "ThingBeginCmdId" -> { U64(66304) }
    [] id = "ThingUpdateCmdId" -> { U64(66560) }
    [] id = "LastValuesBeginCmdId" -> { U64(66816) }
    [] id = "LastValuesUpdateCmdId" -> { U64(67072) }
    [] id = "DeviceBeginCmdId" -> { U64(67328) }
    [] id = "TimezoneCommandUpId" -> { U64(67584) }
    [] id = "TimezoneCommandDownId" -> { U64(67840) }
    [] id = "ThingDetachCmdId" -> { U64(69632) }
    [] id = "ProvisioningStatus" -> { U64(73728) }
    [] id = "ProvisioningListWifiNetworks" -> { U64(73729) }
    [] id = "ProvisioningTimestamp" -> { U64(73730) }
    [] id = "ProvisioningCommands" -> { U64(73731) }
    [] id = "ProvisioningWifiConfig" -> { U64(73732) }
    [] id = "ProvisioningLoRaConfig" -> { U64(73733) }
    [] id = "ProvisioningGSMConfig" -> { U64(73734) }
    [] id = "ProvisioningNBIOTConfig" -> { U64(73735) }
    [] id = "ProvisioningCATM1Config" -> { U64(73736) }
    [] id = "ProvisioningEthernetConfig" -> { U64(73737) }
    [] id = "ProvisioningCellularConfig" -> { U64(73738) }
    [] id = "ProvisioningUniqueHardwareId" -> { U64(73744) }
    [] id = "ProvisioningJWT" -> { U64(73745) }
    [] id = "ProvisioningBLEMacAddress" -> { U64(73747) }
    [] OTHER -> UnknownCmdTags

(***************************************************************************)
(* Reads of the message's memory.  A read inside an array returns what the *)
(* array holds.  A read past its end is undefined: it returns whatever     *)
(* lies there, here the bytes or the entry `ub` stands for, and a strlen   *)
(* that finds no 0 byte in the array stops ub.overread bytes after it.     *)
(***************************************************************************)
\* what lies past the end of the arrays read: [overread, byte, entry]
UndefinedReads ==
  { [overread |-> k, byte |-> 170, entry |-> e] :
      k \in 0..MaxOverread,
      e \in { WiFiNetwork(<< >>, 0), WiFiNetwork(<< 33, 33 >>, 0 - 129) } }

\* one outcome when every read stays inside its array
DefinedReads == { [overread |-> 0, byte |-> 0, entry |-> WiFiNetwork(<< >>, 0)] }

strlen(s, ub) ==
  IF \E i \in 1..Len(s) : s[i] = 0
  THEN (CHOOSE i \in 1..Len(s) : s[i] = 0 /\ \A j \in 1..(i - 1) : s[j] # 0) - 1
  ELSE Len(s) + ub.overread

\* the first length bytes at s
ReadBytes(s, length, ub) ==
  IF length <= Len(s) THEN SubSeq(s, 1, length)
  ELSE s \o Fill(ub.byte, length - Len(s))

\* discoveredWifiNetworks[i], i counted from 0
ReadNetwork(params, i, ub) ==
  IF i < MAX_WIFI_NETWORKS THEN params.discoveredWifiNetworks[i + 1] ELSE ub.entry

\* whether encoding the message reads past the end of an array of the message
ReadsPastArray(message) ==
  \/ /\ message.id = "ProvisioningListWifiNetworks"
     /\ message.params.numDiscoveredWiFiNetworks > MAX_WIFI_NETWORKS
  \/ /\ message.id = "ProvisioningJWT"
     /\ \A i \in 1..PROVISIONING_JWT_SIZE : message.params.jwt[i] # 0

\* the outcomes of the reads the encoder makes of this message
ReadOutcomes(message) ==
  IF ReadsPastArray(message) THEN UndefinedReads ELSE DefinedReads

(***************************************************************************)
(* Message specific encoders (MessageEncoder.cpp, 177-252).  Each takes    *)
(* the context of the array encoder and returns it after its writes;       *)
(* CHECK_CBOR returns at the first write that fails.                       *)
(***************************************************************************)
\* written is the context after the write, whose error is returned at once;
\* next is what the function does after it
CHECK_CBOR(written, next) == IF written.err # CborNoError THEN written ELSE next

cbor_encode_text_stringz(ctx, string, ub) ==
  cbor_encode_text_string(ctx, ReadBytes(string, strlen(string, ub), ub), strlen(string, ub))

\* encodeOtaBeginUp with the sha written as a text string
encodeOtaBeginUp_TextString(ctx, message, ub) ==
  cbor_encode_text_string(ctx, ReadBytes(message.params.sha, SHA256_SIZE, ub), SHA256_SIZE)

encodeOtaBeginUp(ctx, message, ub) ==
  cbor_encode_byte_string(ctx, ReadBytes(message.params.sha, SHA256_SIZE, ub), SHA256_SIZE)

encodeThingBeginCmd(ctx, message, ub) ==
  cbor_encode_text_stringz(ctx, message.params.thing_id, ub)

encodeDeviceBeginCmd(ctx, message, ub) ==
  cbor_encode_text_stringz(ctx, message.params.lib_version, ub)

\* encodeOtaProgressCmdUp going on to the next field after a write that failed
encodeOtaProgressCmdUp_NoCheck(ctx, message, ub) ==
  LET ota == message.params
      c1 == cbor_encode_byte_string(ctx, ReadBytes(ota.id, ID_SIZE, ub), ID_SIZE)
      c2 == cbor_encode_simple_value(c1, ota.state)
      c3 == cbor_encode_int(c2, ota.state_data)
  IN  cbor_encode_uint(c3, ota.time)

encodeOtaProgressCmdUp(ctx, message, ub) ==
  LET ota == message.params
      c1 == cbor_encode_byte_string(ctx, ReadBytes(ota.id, ID_SIZE, ub), ID_SIZE)
      c2 == CHECK_CBOR(c1, cbor_encode_simple_value(c1, ota.state))
      c3 == CHECK_CBOR(c2, cbor_encode_int(c2, ota.state_data))
  IN  CHECK_CBOR(c3, cbor_encode_uint(c3, ota.time))

encodeProvisioningStatus(ctx, message, ub) ==
  cbor_encode_int(ctx, message.params.status)

\* WifiNetworksTurn with the signal strength written before the name
WifiNetworksTurn_RssiFirst(ctx, params, i, ub) ==
  IF ctx.err # CborNoError THEN ctx
  ELSE LET net == ReadNetwork(params, i, ub)
           c0 == [ctx EXCEPT !.reads = Append(ctx.reads, i)]
           c1 == cbor_encode_int(c0, net.RSSI)
       IN  CHECK_CBOR(c1, cbor_encode_text_stringz(c1, net.SSID, ub))

\* one turn of the for loop of encodeProvisioningListWifiNetworks, for index i
WifiNetworksTurn(ctx, params, i, ub) ==
  IF ctx.err # CborNoError THEN ctx
  ELSE LET net == ReadNetwork(params, i, ub)
           c0 == [ctx EXCEPT !.reads = Append(ctx.reads, i)]
           c1 == cbor_encode_text_stringz(c0, net.SSID, ub)
       IN  CHECK_CBOR(c1, cbor_encode_int(c1, net.RSSI))

RECURSIVE WifiNetworksLoop(_, _, _, _, _)
\* the turns for i = lo .. hi - 1, in order (split in halves to bound the
\* depth of the evaluation); the loop is left at the first write that fails
WifiNetworksLoop(ctx, params, lo, hi, ub) ==
  IF ctx.err # CborNoError \/ hi <= lo THEN ctx
  ELSE IF hi = lo + 1 THEN WifiNetworksTurn(ctx, params, lo, ub)
  ELSE LET mid == (lo + hi) \div 2
       IN  WifiNetworksLoop(WifiNetworksLoop(ctx, params, lo, mid, ub), params, mid, hi, ub)

encodeProvisioningListWifiNetworks(ctx, message, ub) ==
  WifiNetworksLoop(ctx, message.params, 0, message.params.numDiscoveredWiFiNetworks, ub)

encodeProvisioningUniqueHardwareId(ctx, message, ub) ==
  cbor_encode_byte_string(ctx, ReadBytes(message.params.uniqueHardwareId, UHWID_SIZE, ub),
                          UHWID_SIZE)

encodeProvisioningJWT(ctx, message, ub) ==
  cbor_encode_byte_string(ctx,
                          ReadBytes(message.params.jwt, strlen(message.params.jwt, ub), ub),
                          strlen(message.params.jwt, ub))

\* encodeProvisioningBLEMacAddress with the address taken for empty when its
\* first byte is zero
encodeProvisioningBLEMacAddress_FirstByte(ctx, message, ub) ==
  LET size == IF message.params.macAddress[1] # 0 THEN BLE_MAC_ADDRESS_SIZE ELSE 0
  IN  cbor_encode_byte_string(ctx, ReadBytes(message.params.macAddress, size, ub), size)

encodeProvisioningBLEMacAddress(ctx, message, ub) ==
  LET emptyMac == << 0, 0, 0, 0, 0, 0 >>
      size == IF SubSeq(message.params.macAddress, 1, BLE_MAC_ADDRESS_SIZE) # emptyMac
              THEN BLE_MAC_ADDRESS_SIZE ELSE 0
  IN  cbor_encode_byte_string(ctx, ReadBytes(message.params.macAddress, size, ub), size)

(***************************************************************************)
(* The handlers of the encoder's state machine (MessageEncoder.cpp, 62-175)*)
(* Each returns the next EncoderState with the encoders and the buffer as  *)
(* the handler leaves them.                                                *)
(***************************************************************************)
EncoderStates ==
  { "EncodeTag", "EncodeArray", "EncodeParam", "CloseArray", "Complete",
    "MessageNotSupported", "Error" }

Ctx(enc, dat) == [enc |-> enc, data |-> dat, err |-> CborNoError, log |-> << >>, reads |-> << >>]

\* handle_EncodeTag with the array phase skipped: the tag phase hands over
\* to the parameter phase
handle_EncodeTag_SkipsArray(enc, dat, commandTag) ==
  IF commandTag \in UnknownCmdTags
  THEN [state |-> "Error", encoder |-> enc, data |-> dat]
  ELSE LET c == cbor_encode_tag(Ctx(enc, dat), commandTag)
       IN  [state |-> IF c.err # CborNoError THEN "Error" ELSE "EncodeParam",
            encoder |-> c.enc, data |-> c.data]

\* handle_EncodeTag with an unresolved tag reported as MessageNotSupported
handle_EncodeTag_NotSupported(enc, dat, commandTag) ==
  IF commandTag \in UnknownCmdTags
  THEN [state |-> "MessageNotSupported", encoder |-> enc, data |-> dat]
  ELSE LET c == cbor_encode_tag(Ctx(enc, dat), commandTag)
       IN  [state |-> IF c.err # CborNoError THEN "Error" ELSE "EncodeArray",
            encoder |-> c.enc, data |-> c.data]

\* commandTag is the tag toCBORCommandTag(message->id) returned
handle_EncodeTag(enc, dat, commandTag) ==
  IF \/ commandTag = CBORUnknownCmdTag16b
     \/ commandTag = CBORUnknownCmdTag32b
     \/ commandTag = CBORUnknownCmdTag64b
  THEN [state |-> "Error", encoder |-> enc, data |-> dat]
  ELSE LET c == cbor_encode_tag(Ctx(enc, dat), commandTag)
       IN  [state |-> IF c.err # CborNoError THEN "Error" ELSE "EncodeArray",
            encoder |-> c.enc, data |-> c.data]

\* ArraySizeOf with the array of OtaProgressCmdUp declared one element short
ArraySizeOf_ProgressShort(msg) ==
  CASE msg.id = "OtaBeginUpId" -> [supported |-> TRUE, array_size |-> 1]
    [] msg.id = "ThingBeginCmdId" -> [supported |-> TRUE, array_size |-> 1]
    [] msg.id = "DeviceBeginCmdId" -> [supported |-> TRUE, array_size |-> 1]
    [] msg.id = "LastValuesBeginCmdId" -> [supported |-> TRUE, array_size |-> 0]
    [] msg.id = "OtaProgressCmdUpId" -> [supported |-> TRUE, array_size |-> 3]
    [] msg.id = "TimezoneCommandUpId" -> [supported |-> TRUE, array_size |-> 0]
    [] msg.id = "ProvisioningStatus" -> [supported |-> TRUE, array_size |-> 1]
    [] msg.id = "ProvisioningListWifiNetworks" ->
         [supported |-> TRUE, array_size |-> 2 * msg.params.numDiscoveredWiFiNetworks]
    [] msg.id = "ProvisioningUniqueHardwareId" -> [supported |-> TRUE, array_size |-> 1]
    [] msg.id = "ProvisioningJWT" -> [supported |-> TRUE, array_size |-> 1]
    [] msg.id = "ProvisioningBLEMacAddress" -> [supported |-> TRUE, array_size |-> 1]
    [] OTHER -> [supported |-> FALSE, array_size |-> 0]

\* the switch that sets array_size from the message id; no size: the default case
ArraySizeOf(msg) ==
  CASE msg.id = "OtaBeginUpId" -> [supported |-> TRUE, array_size |-> 1]
    [] msg.id = "ThingBeginCmdId" -> [supported |-> TRUE, array_size |-> 1]
    [] msg.id = "DeviceBeginCmdId" -> [supported |-> TRUE, array_size |-> 1]
    [] msg.id = "LastValuesBeginCmdId" -> [supported |-> TRUE, array_size |-> 0]
    [] msg.id = "OtaProgressCmdUpId" -> [supported |-> TRUE, array_size |-> 4]
    [] msg.id = "TimezoneCommandUpId" -> [supported |-> TRUE, array_size |-> 0]
    [] msg.id = "ProvisioningStatus" -> [supported |-> TRUE, array_size |-> 1]
    [] msg.id = "ProvisioningListWifiNetworks" ->
         [supported |-> TRUE, array_size |-> 2 * msg.params.numDiscoveredWiFiNetworks]
    [] msg.id = "ProvisioningUniqueHardwareId" -> [supported |-> TRUE, array_size |-> 1]
    [] msg.id = "ProvisioningJWT" -> [supported |-> TRUE, array_size |-> 1]
    [] msg.id = "ProvisioningBLEMacAddress" -> [supported |-> TRUE, array_size |-> 1]
    [] OTHER -> [supported |-> FALSE, array_size |-> 0]

handle_EncodeArray(enc, arr, dat, msg) ==
  IF ~ArraySizeOf(msg).supported
  THEN [state |-> "MessageNotSupported", encoder |-> enc, arrayEncoder |-> arr,
        data |-> dat, array_size |-> 0]
  ELSE LET r == cbor_encoder_create_array(enc, dat, ArraySizeOf(msg).array_size)
       IN  [state |-> IF r.err # CborNoError THEN "Error" ELSE "EncodeParam",
            encoder |-> r.encoder, arrayEncoder |-> r.container, data |-> r.data,
            array_size |-> ArraySizeOf(msg).array_size]

\* EncodeParamOf with no case for ProvisioningBLEMacAddress
EncodeParamOf_NoBleMac(ctx, msg, ub) ==
  CASE msg.id = "OtaBeginUpId" -> [supported |-> TRUE, ctx |-> encodeOtaBeginUp(ctx, msg, ub)]
    [] msg.id = "ThingBeginCmdId" ->
         [supported |-> TRUE, ctx |-> encodeThingBeginCmd(ctx, msg, ub)]
    [] msg.id = "DeviceBeginCmdId" ->
         [supported |-> TRUE, ctx |-> encodeDeviceBeginCmd(ctx, msg, ub)]
    [] msg.id = "LastValuesBeginCmdId" -> [supported |-> TRUE, ctx |-> ctx]
    [] msg.id = "OtaProgressCmdUpId" ->
         [supported |-> TRUE, ctx |-> encodeOtaProgressCmdUp(ctx, msg, ub)]
    [] msg.id = "TimezoneCommandUpId" -> [supported |-> TRUE, ctx |-> ctx]
    [] msg.id = "ProvisioningStatus" ->
         [supported |-> TRUE, ctx |-> encodeProvisioningStatus(ctx, msg, ub)]
    [] msg.id = "ProvisioningListWifiNetworks" ->
         [supported |-> TRUE, ctx |-> encodeProvisioningListWifiNetworks(ctx, msg, ub)]
    [] msg.id = "ProvisioningUniqueHardwareId" ->
         [supported |-> TRUE, ctx |-> encodeProvisioningUniqueHardwareId(ctx, msg, ub)]
    [] msg.id = "ProvisioningJWT" ->
         [supported |-> TRUE, ctx |-> encodeProvisioningJWT(ctx, msg, ub)]
    [] OTHER -> [supported |-> FALSE, ctx |-> ctx]

\* the switch that runs the message specific encoder; the ids with no case
\* leave the context as it is (LastValuesBeginCmdId, TimezoneCommandUpId) or
\* are the default case (supported FALSE)
EncodeParamOf(ctx, msg, ub) ==
  CASE msg.id = "OtaBeginUpId" -> [supported |-> TRUE, ctx |-> encodeOtaBeginUp(ctx, msg, ub)]
    [] msg.id = "ThingBeginCmdId" ->
         [supported |-> TRUE, ctx |-> encodeThingBeginCmd(ctx, msg, ub)]
    [] msg.id = "DeviceBeginCmdId" ->
         [supported |-> TRUE, ctx |-> encodeDeviceBeginCmd(ctx, msg, ub)]
    [] msg.id = "LastValuesBeginCmdId" -> [supported |-> TRUE, ctx |-> ctx]
    [] msg.id = "OtaProgressCmdUpId" ->
         [supported |-> TRUE, ctx |-> encodeOtaProgressCmdUp(ctx, msg, ub)]
    [] msg.id = "TimezoneCommandUpId" -> [supported |-> TRUE, ctx |-> ctx]
    [] msg.id = "ProvisioningStatus" ->
         [supported |-> TRUE, ctx |-> encodeProvisioningStatus(ctx, msg, ub)]
    [] msg.id = "ProvisioningListWifiNetworks" ->
         [supported |-> TRUE, ctx |-> encodeProvisioningListWifiNetworks(ctx, msg, ub)]
    [] msg.id = "ProvisioningUniqueHardwareId" ->
         [supported |-> TRUE, ctx |-> encodeProvisioningUniqueHardwareId(ctx, msg, ub)]
    [] msg.id = "ProvisioningJWT" ->
         [supported |-> TRUE, ctx |-> encodeProvisioningJWT(ctx, msg, ub)]
    [] msg.id = "ProvisioningBLEMacAddress" ->
         [supported |-> TRUE, ctx |-> encodeProvisioningBLEMacAddress(ctx, msg, ub)]
    [] OTHER -> [supported |-> FALSE, ctx |-> ctx]

handle_EncodeParam(arr, dat, msg, ub) ==
  LET r == EncodeParamOf(Ctx(arr, dat), msg, ub)
  IN  [state |-> IF ~r.supported THEN "MessageNotSupported"
                 ELSE IF r.ctx.err # CborNoError THEN "Error" ELSE "CloseArray",
       arrayEncoder |-> r.ctx.enc, data |-> r.ctx.data, log |-> r.ctx.log,
       reads |-> r.ctx.reads]

handle_CloseArray(enc, arr) ==
  LET r == cbor_encoder_close_container(enc, arr)
  IN  [state |-> IF r.err # CborNoError THEN "Error" ELSE "Complete", encoder |-> r.encoder]

\* EncodeStatus with an unsupported message passed over as if it were encoded
EncodeStatus_SkipsUnsupported(state) ==
  CASE state = "Complete" -> "Complete"
    [] state = "MessageNotSupported" -> "Complete"
    [] state = "Error" -> "Error"

\* EncodeStatus with a status of its own for an unsupported message
EncodeStatus_ThreeOutcomes(state) ==
  CASE state = "Complete" -> "Complete"
    [] state = "MessageNotSupported" -> "MessageNotSupported"
    [] state = "Error" -> "Error"

\* the status encode returns once the state machine stands in a final state
EncodeStatus(state) ==
  CASE state = "Complete" -> "Complete"
    [] state = "MessageNotSupported" -> "Error"
    [] state = "Error" -> "Error"

(***************************************************************************)
(* State                                                                   *)
(***************************************************************************)
VARIABLES
  pc,             \* "idle", "loop" (inside encode), "returned", "trapped"
  ncalls,         \* the encode calls made so far
  message,        \* the Message encode was called with
  capacity,       \* the value of len at the call
  len,            \* the caller's len, which encode takes by reference
  data,           \* the bytes of the caller's buffer written by this call
  encoder,        \* encode's CborEncoder encoder
  arrayEncoder,   \* encode's CborEncoder arrayEncoder
  current_state,  \* encode's current_state
  status,         \* the Encoder::Status returned, "None" before the return
  phases,         \* the handlers this call has run, in order
  declared,       \* the array_size the array was opened with
  log,            \* the items this call has written into the array
  reads,          \* the indexes of discoveredWifiNetworks this call has read
  first,          \* what the caller kept of its first call, NoResult if nothing
  cloud_pc,       \* "idle", "while" (mqttReconnect's loop test), "reconnected"
  nupdates,       \* the update calls made so far
  mqttConnected,  \* what _mqttClient.connected() returns
  subscriptions,  \* the topics subscribed to, in the order of the calls
  maxRetries,     \* update's maxRetries, the argument of mqttReconnect
  timeout,        \* update's timeout, the argument of mqttReconnect
  retries,        \* mqttReconnect's retries
  elapsed,        \* millis() - start at the last reading of the clock
  result,         \* what mqttReconnect returned, "None" before it returns
  attempts,       \* the outcomes of the calls of connect() of this update, in order
  entry,          \* the client's state when update was called
  lost,           \* whether the connection was lost during this update
  polled,         \* whether this update called _mqttClient.loop()
  published,      \* whether this update called writeProperties
  given,          \* the arguments update was called with
  connectReturned, \* what the last call of connect() returned, "None" before
  life_pc,        \* "idle", a step of begin or reconnect, "destroyed", "trapped"
  nbegins,        \* the calls of begin and reconnect made so far
  heap,           \* the BearSSLClient instances allocated so far: "live", "deleted"
  bearSslClient,  \* _bearSslClient: the index of an instance in heap, or NULL
  mqttNet,        \* the instance _mqttClient.begin was last given, NULL before
  beginUses       \* what _bearSslClient referred to at each mqttClientBegin

cloudVars ==
  << cloud_pc, nupdates, mqttConnected, subscriptions, maxRetries, timeout, retries,
     elapsed, result, attempts, entry, lost, polled, published, given, connectReturned >>

lifeVars == << life_pc, nbegins, heap, bearSslClient, mqttNet, beginUses >>

vars ==
  << pc, ncalls, message, capacity, len, data, encoder, arrayEncoder, current_state,
     status, phases, declared, log, reads, first, cloudVars, lifeVars >>

\* a CborEncoder that has not been set up
NoEncoder == [ptr |-> 0, end |-> NULL, bytes_needed |-> 0, remaining |-> 0]

\* nothing kept of an earlier call
NoResult == [kept |-> FALSE]

\* the capacities encode is called with
Capacities ==
  { 0, 1, 4, 5, 6, 7, 8, 9, 13, 22, 38, 39, 40, 41, 100, 252, 253, 254, 255, 256, MaxCapacity }

Init ==
  /\ pc = "idle"
  /\ ncalls = 0
  /\ message = NoMessage
  /\ capacity = 0
  /\ len = 0
  /\ data = << >>
  /\ encoder = NoEncoder
  /\ arrayEncoder = NoEncoder
  /\ current_state = "EncodeTag"
  /\ status = "None"
  /\ phases = << >>
  /\ declared = 0
  /\ log = << >>
  /\ reads = << >>
  /\ first = NoResult
  /\ cloud_pc = "idle"
  /\ nupdates = 0
  /\ mqttConnected = FALSE
  /\ subscriptions = << >>
  /\ maxRetries = 0
  /\ timeout = 0
  /\ retries = 0
  /\ elapsed = 0
  /\ result = "None"
  /\ attempts = << >>
  /\ entry = [connected |-> FALSE, subscriptions |-> << >>]
  /\ lost = FALSE
  /\ polled = FALSE
  /\ published = FALSE
  /\ given = [reconnectionMaxRetries |-> 0, reconnectionTimeoutMs |-> 0]
  /\ connectReturned = "None"
  /\ life_pc = "idle"
  /\ nbegins = 0
  /\ heap = << >>
  /\ bearSslClient = NULL
  /\ mqttNet = NULL
  /\ beginUses = << >>

(***************************************************************************)
(* CBORMessageEncoder::encode (MessageEncoder.cpp, 28-56)                  *)
(***************************************************************************)
\* the prologue of a call with message msg and len = cap: the states and
\* cbor_encoder_init
encode_begin(msg, cap) ==
  /\ message' = msg
  /\ capacity' = cap
  /\ len' = cap
  /\ encoder' = cbor_encoder_init(cap)

\* a call of encode
encode_call ==
  /\ pc = "idle"
  /\ ncalls < MaxCalls
  /\ \E id \in CommandIds : \E params \in ParamsOf(id) : \E cap \in Capacities :
       encode_begin(Message(id, params), cap)
  /\ pc' = "loop"
  /\ ncalls' = ncalls + 1
  /\ data' = << >>
  /\ arrayEncoder' = NoEncoder
  /\ current_state' = "EncodeTag"
  /\ status' = "None"
  /\ phases' = << >>
  /\ declared' = 0
  /\ log' = << >>
  /\ reads' = << >>
  /\ UNCHANGED << first, cloudVars, lifeVars >>

\* one turn of the loop in state EncodeTag
loop_EncodeTag ==
  /\ pc = "loop"
  /\ current_state = "EncodeTag"
  /\ \E commandTag \in toCBORCommandTag(message.id) :
       LET r == handle_EncodeTag(encoder, data, commandTag)
       IN  /\ current_state' = r.state
           /\ encoder' = r.encoder
           /\ data' = r.data
  /\ phases' = Append(phases, "EncodeTag")
  /\ UNCHANGED << pc, ncalls, message, capacity, len, arrayEncoder, status, declared,
                  log, reads >>
  /\ UNCHANGED << first, cloudVars, lifeVars >>

\* one turn of the loop in state EncodeArray
loop_EncodeArray ==
  /\ pc = "loop"
  /\ current_state = "EncodeArray"
  /\ LET r == handle_EncodeArray(encoder, arrayEncoder, data, message)
     IN  /\ current_state' = r.state
         /\ encoder' = r.encoder
         /\ arrayEncoder' = r.arrayEncoder
         /\ data' = r.data
         /\ declared' = r.array_size
  /\ phases' = Append(phases, "EncodeArray")
  /\ UNCHANGED << pc, ncalls, message, capacity, len, status, log, reads >>
  /\ UNCHANGED << first, cloudVars, lifeVars >>

\* one turn of the loop in state EncodeParam
loop_EncodeParam ==
  /\ pc = "loop"
  /\ current_state = "EncodeParam"
  /\ \E ub \in ReadOutcomes(message) :
       LET r == handle_EncodeParam(arrayEncoder, data, message, ub)
       IN  /\ current_state' = r.state
           /\ arrayEncoder' = r.arrayEncoder
           /\ data' = r.data
           /\ log' = r.log
           /\ reads' = r.reads
  /\ phases' = Append(phases, "EncodeParam")
  /\ UNCHANGED << pc, ncalls, message, capacity, len, encoder, status, declared >>
  /\ UNCHANGED << first, cloudVars, lifeVars >>

\* a read past the end of an array of the message may also end the program
trap_EncodeParam ==
  /\ pc = "loop"
  /\ current_state = "EncodeParam"
  /\ ReadsPastArray(message)
  /\ pc' = "trapped"
  /\ phases' = Append(phases, "EncodeParam")
  /\ UNCHANGED << ncalls, message, capacity, len, data, encoder, arrayEncoder,
                  current_state, status, declared, log, reads >>
  /\ UNCHANGED << first, cloudVars, lifeVars >>

\* one turn of the loop in state CloseArray
loop_CloseArray ==
  /\ pc = "loop"
  /\ current_state = "CloseArray"
  /\ LET r == handle_CloseArray(encoder, arrayEncoder)
     IN  /\ current_state' = r.state
         /\ encoder' = r.encoder
  /\ phases' = Append(phases, "CloseArray")
  /\ UNCHANGED << pc, ncalls, message, capacity, len, data, arrayEncoder, status,
                  declared, log, reads >>
  /\ UNCHANGED << first, cloudVars, lifeVars >>

\* encode_return_failed with len set to the bytes written before the failure
encode_return_failed_PartialLen ==
  /\ pc = "loop"
  /\ current_state \in { "MessageNotSupported", "Error" }
  /\ len' = cbor_encoder_get_buffer_size(encoder)
  /\ status' = EncodeStatus(current_state)
  /\ pc' = "returned"
  /\ UNCHANGED << ncalls, message, capacity, data, encoder, arrayEncoder,
                  current_state, phases, declared, log, reads >>
  /\ UNCHANGED << first, cloudVars, lifeVars >>

\* the turn of the loop in state MessageNotSupported or Error: return
encode_return_failed ==
  /\ pc = "loop"
  /\ current_state \in { "MessageNotSupported", "Error" }
  /\ status' = EncodeStatus(current_state)
  /\ pc' = "returned"
  /\ UNCHANGED << ncalls, message, capacity, len, data, encoder, arrayEncoder,
                  current_state, phases, declared, log, reads >>
  /\ UNCHANGED << first, cloudVars, lifeVars >>

\* encode_return_complete with len left as it was passed
encode_return_complete_KeepsLen ==
  /\ pc = "loop"
  /\ current_state = "Complete"
  /\ status' = EncodeStatus(current_state)
  /\ pc' = "returned"
  /\ UNCHANGED << ncalls, message, capacity, len, data, encoder, arrayEncoder,
                  current_state, phases, declared, log, reads >>
  /\ UNCHANGED << first, cloudVars, lifeVars >>

\* the loop ends in state Complete: len is set and Complete returned
encode_return_complete ==
  /\ pc = "loop"
  /\ current_state = "Complete"
  /\ len' = cbor_encoder_get_buffer_size(encoder)
  /\ status' = EncodeStatus(current_state)
  /\ pc' = "returned"
  /\ UNCHANGED << ncalls, message, capacity, data, encoder, arrayEncoder,
                  current_state, phases, declared, log, reads >>
  /\ UNCHANGED << first, cloudVars, lifeVars >>

\* the caller is done with the result: encode keeps nothing between calls
caller_done ==
  /\ pc = "returned"
  /\ pc' = "idle"
  /\ message' = NoMessage
  /\ capacity' = 0
  /\ len' = 0
  /\ data' = << >>
  /\ encoder' = NoEncoder
  /\ arrayEncoder' = NoEncoder
  /\ current_state' = "EncodeTag"
  /\ status' = "None"
  /\ phases' = << >>
  /\ declared' = 0
  /\ log' = << >>
  /\ reads' = << >>
  /\ UNCHANGED ncalls
  /\ UNCHANGED << first, cloudVars, lifeVars >>

Next ==
  \/ encode_call
  \/ loop_EncodeTag
  \/ loop_EncodeArray
  \/ loop_EncodeParam
  \/ trap_EncodeParam
  \/ loop_CloseArray
  \/ encode_return_failed
  \/ encode_return_complete
  \/ caller_done

Spec == Init /\ [][Next]_vars

(***************************************************************************)
(* A caller that compares calls: it keeps the arguments and the result of  *)
(* its first call and goes on calling encode, with a small set of messages *)
(* and capacities so that the same arguments come again.                   *)
(***************************************************************************)
\* the messages of the compared calls: one or two of each kind
ComparedMessages ==
  { Message("OtaBeginUpId", [sha |-> Fill(255, SHA256_SIZE)]),
    Message("DeviceBeginCmdId", [lib_version |-> CStr(<< 50, 46, 49 >>, MAX_LIB_VERSION_SIZE)]),
    Message("OtaProgressCmdUpId",
            [id |-> Fill(7, ID_SIZE), state |-> 25, state_data |-> 0 - 25, time |-> U64(0)]),
    Message("ThingUpdateCmdId", [none |-> TRUE]),
    Message("UnknownCmdId", [none |-> TRUE]),
    Message("ProvisioningJWT", [jwt |-> CStr(Fill(101, 5), PROVISIONING_JWT_SIZE)]),
    Message("ProvisioningJWT", [jwt |-> Fill(101, PROVISIONING_JWT_SIZE)]),
    Message("ProvisioningListWifiNetworks",
            [discoveredWifiNetworks |->
               [i \in 1..MAX_WIFI_NETWORKS |-> WiFiNetwork(Fill(64 + i, 1 + (i % 3)), (0 - 30) - i)],
             numDiscoveredWiFiNetworks |-> 2]) }

\* the capacities of the compared calls
ComparedCapacities == { 9, 40, MaxCapacity }

\* a call of encode by the comparing caller
encode_call_compared ==
  /\ pc = "idle"
  /\ ncalls < MaxComparedCalls
  /\ \E msg \in ComparedMessages : \E cap \in ComparedCapacities : encode_begin(msg, cap)
  /\ pc' = "loop"
  /\ ncalls' = ncalls + 1
  /\ data' = << >>
  /\ arrayEncoder' = NoEncoder
  /\ current_state' = "EncodeTag"
  /\ status' = "None"
  /\ phases' = << >>
  /\ declared' = 0
  /\ log' = << >>
  /\ reads' = << >>
  /\ UNCHANGED << first, cloudVars, lifeVars >>

\* the caller keeps the arguments and the result of its first call
caller_keeps ==
  /\ pc = "returned"
  /\ first = NoResult
  /\ first' = [kept |-> TRUE, message |-> message, capacity |-> capacity,
                status |-> status, len |-> len, data |-> data]
  /\ pc' = "idle"
  /\ message' = NoMessage
  /\ capacity' = 0
  /\ len' = 0
  /\ data' = << >>
  /\ encoder' = NoEncoder
  /\ arrayEncoder' = NoEncoder
  /\ current_state' = "EncodeTag"
  /\ status' = "None"
  /\ phases' = << >>
  /\ declared' = 0
  /\ log' = << >>
  /\ reads' = << >>
  /\ UNCHANGED << ncalls, cloudVars, lifeVars >>

\* the caller is done with a later call
caller_compared ==
  /\ first # NoResult
  /\ caller_done

NextCompared ==
  \/ encode_call_compared
  \/ loop_EncodeTag
  \/ loop_EncodeArray
  \/ loop_EncodeParam
  \/ trap_EncodeParam
  \/ loop_CloseArray
  \/ encode_return_failed
  \/ encode_return_complete
  \/ caller_keeps
  \/ caller_compared

SpecCompared == Init /\ [][NextCompared]_vars

(***************************************************************************)
(* ArduinoIoTCloudClass: update, mqttReconnect and connect                 *)
(* (src/src/ArduinoIoTCloud.cpp, 93-164).  The MQTT client and the clock   *)
(* are the environment: a connect attempt succeeds or fails, the           *)
(* connection can be lost at any moment, and each reading of millis() is   *)
(* at or after the one before.  elapsed is millis() - start, counted up to *)
(* timeout, beyond which every comparison with timeout gives the same.     *)
(***************************************************************************)
\* the defaults of ArduinoIoTCloud.h
MAX_RETRIES == 5

RECONNECTION_TIMEOUT == 2000

\* the values of reconnectionMaxRetries tried
RetriesTried == { 0 - 1, 0, 1, 2 }

\* the values of reconnectionTimeoutMs tried
TimeoutsTried == { 0 - 1, 0, 2 }

\* the lengths Thing.encode returns
PropertyLengths == { 0, 12 }

\* the readings of millis() - start that can follow the reading before
Later(before, limit) == { now \in { before, before + 1, limit } : now >= before /\ now <= limit }

\* connect with the topics subscribed to before the outcome of
\* _mqttClient.connect is looked at
connect_SubscribesFirst(subs, ok) ==
  [connected |-> ok, subscriptions |-> subs \o << "_stdinTopic", "_dataTopicIn" >>,
   returns |-> IF ok THEN 1 ELSE 0]

\* connect(): ok is what _mqttClient.connect returns; the topics are
\* subscribed to after a connect that succeeded
connect(subs, ok) ==
  IF ~ok
  THEN [connected |-> FALSE, subscriptions |-> subs, returns |-> 0]
  ELSE [connected |-> TRUE, subscriptions |-> subs \o << "_stdinTopic", "_dataTopicIn" >>,
        returns |-> 1]

\* the value mqttReconnect returns after its loop
ReconnectResult(tried, limit, now, tmo) ==
  IF (tried = limit) \/ (now >= tmo) THEN "false" ELSE "true"

encodeVars ==
  << pc, ncalls, message, capacity, len, data, encoder, arrayEncoder, current_state,
     status, phases, declared, log, reads, first >>

\* update_call with the arguments handed to mqttReconnect as they are
update_call_NoControls ==
  /\ cloud_pc = "idle"
  /\ nupdates < MaxUpdates
  /\ \E reconnectionMaxRetries \in RetriesTried : \E reconnectionTimeoutMs \in TimeoutsTried :
       /\ maxRetries' = reconnectionMaxRetries
       /\ timeout' = reconnectionTimeoutMs
       /\ given' = [reconnectionMaxRetries |-> reconnectionMaxRetries,
                    reconnectionTimeoutMs |-> reconnectionTimeoutMs]
  /\ nupdates' = nupdates + 1
  /\ retries' = 0
  /\ elapsed' = 0
  /\ result' = "None"
  /\ attempts' = << >>
  /\ entry' = [connected |-> mqttConnected, subscriptions |-> subscriptions]
  /\ lost' = FALSE
  /\ polled' = FALSE
  /\ published' = FALSE
  /\ cloud_pc' = "while"
  /\ UNCHANGED << mqttConnected, subscriptions, connectReturned >>
  /\ UNCHANGED << encodeVars, lifeVars >>

\* update(reconnectionMaxRetries, reconnectionTimeoutMs) up to the loop of
\* mqttReconnect: the argument controls, retries = 0 and start = millis()
update_call ==
  /\ cloud_pc = "idle"
  /\ nupdates < MaxUpdates
  /\ \E reconnectionMaxRetries \in RetriesTried : \E reconnectionTimeoutMs \in TimeoutsTried :
       /\ maxRetries' = IF reconnectionMaxRetries > 0 THEN reconnectionMaxRetries
                         ELSE MAX_RETRIES
       /\ timeout' = IF reconnectionTimeoutMs > 0 THEN reconnectionTimeoutMs
                      ELSE RECONNECTION_TIMEOUT
       /\ given' = [reconnectionMaxRetries |-> reconnectionMaxRetries,
                    reconnectionTimeoutMs |-> reconnectionTimeoutMs]
  /\ nupdates' = nupdates + 1
  /\ retries' = 0
  /\ elapsed' = 0
  /\ result' = "None"
  /\ attempts' = << >>
  /\ entry' = [connected |-> mqttConnected, subscriptions |-> subscriptions]
  /\ lost' = FALSE
  /\ polled' = FALSE
  /\ published' = FALSE
  /\ cloud_pc' = "while"
  /\ UNCHANGED << mqttConnected, subscriptions, connectReturned >>
  /\ UNCHANGED << encodeVars, lifeVars >>

\* mqttReconnect_turn with a connect attempt made whether or not the client
\* is connected
mqttReconnect_turn_IgnoresConnected ==
  /\ cloud_pc = "while"
  /\ retries < maxRetries
  /\ retries' = retries + 1
  /\ \E now \in Later(elapsed, timeout) :
       /\ now < timeout
       /\ elapsed' = now
  /\ \E ok \in BOOLEAN :
       /\ mqttConnected' = connect(subscriptions, ok).connected
       /\ subscriptions' = connect(subscriptions, ok).subscriptions
       /\ attempts' = Append(attempts, ok)
       /\ connectReturned' = connect(subscriptions, ok).returns
  /\ UNCHANGED << cloud_pc, nupdates, maxRetries, timeout, result, entry, lost, polled,
                  published, given >>
  /\ UNCHANGED << encodeVars, lifeVars >>

\* one turn of the loop of mqttReconnect: the test holds (not connected,
\* retries++ < maxRetries, millis() - start < timeout) and connect() is called
mqttReconnect_turn ==
  /\ cloud_pc = "while"
  /\ ~mqttConnected
  /\ retries < maxRetries
  /\ retries' = retries + 1
  /\ \E now \in Later(elapsed, timeout) :
       /\ now < timeout
       /\ elapsed' = now
  /\ \E ok \in BOOLEAN :
       /\ mqttConnected' = connect(subscriptions, ok).connected
       /\ subscriptions' = connect(subscriptions, ok).subscriptions
       /\ attempts' = Append(attempts, ok)
       /\ connectReturned' = connect(subscriptions, ok).returns
  /\ UNCHANGED << cloud_pc, nupdates, maxRetries, timeout, result, entry, lost, polled,
                  published, given >>
  /\ UNCHANGED << encodeVars, lifeVars >>

\* the test of the loop fails and mqttReconnect returns.  The test stops at
\* its first false operand: connected() leaves retries as it is, a failed
\* retries++ < maxRetries has still incremented retries, and millis() is read
\* in the test only after the two others held.  The return statement reads
\* millis() once more.
mqttReconnect_return ==
  /\ cloud_pc = "while"
  /\ \E tested \in Later(elapsed, timeout) : \E now \in Later(tested, timeout) :
       /\ \/ /\ mqttConnected
             /\ tested = elapsed
             /\ retries' = retries
          \/ /\ ~mqttConnected
             /\ ~(retries < maxRetries)
             /\ tested = elapsed
             /\ retries' = retries + 1
          \/ /\ ~mqttConnected
             /\ retries < maxRetries
             /\ ~(tested < timeout)
             /\ retries' = retries + 1
       /\ elapsed' = now
       /\ result' = ReconnectResult(retries', maxRetries, now, timeout)
  /\ cloud_pc' = "reconnected"
  /\ UNCHANGED << nupdates, mqttConnected, subscriptions, maxRetries, timeout, attempts,
                  entry, lost, polled, published, given, connectReturned >>
  /\ UNCHANGED << encodeVars, lifeVars >>

\* update after mqttReconnect returned false: return
update_return ==
  /\ cloud_pc = "reconnected"
  /\ result = "false"
  /\ cloud_pc' = "idle"
  /\ UNCHANGED << nupdates, mqttConnected, subscriptions, maxRetries, timeout, retries,
                  elapsed, result, attempts, entry, lost, polled, published, given,
                  connectReturned >>
  /\ UNCHANGED << encodeVars, lifeVars >>

\* update after mqttReconnect returned true: _mqttClient.loop(), Thing.encode
\* and, when it returned a length above 0, writeProperties
update_poll ==
  /\ cloud_pc = "reconnected"
  /\ result = "true"
  /\ polled' = TRUE
  /\ \E length \in PropertyLengths : published' = (length > 0)
  /\ cloud_pc' = "idle"
  /\ UNCHANGED << nupdates, mqttConnected, subscriptions, maxRetries, timeout, retries,
                  elapsed, result, attempts, entry, lost, given, connectReturned >>
  /\ UNCHANGED << encodeVars, lifeVars >>

\* the environment: the connection to the broker is lost
connection_lost ==
  /\ mqttConnected
  /\ mqttConnected' = FALSE
  /\ lost' = (cloud_pc # "idle")
  /\ UNCHANGED << cloud_pc, nupdates, subscriptions, maxRetries, timeout, retries, elapsed,
                  result, attempts, entry, polled, published, given, connectReturned >>
  /\ UNCHANGED << encodeVars, lifeVars >>

NextCloud ==
  \/ update_call
  \/ mqttReconnect_turn
  \/ mqttReconnect_return
  \/ update_return
  \/ update_poll
  \/ connection_lost

SpecCloud == Init /\ [][NextCloud]_vars

(***************************************************************************)
(* ArduinoIoTCloudClass: begin, reconnect and the destructor               *)
(* (src/src/ArduinoIoTCloud.cpp, 18-68 and 166-184) and the BearSSLClient  *)
(* they own.  heap lists the instances allocated by new, in order, each    *)
(* "live" or "deleted"; _bearSslClient is an index into it or NULL.  begin *)
(* and reconnect are split at the delete, the new and the use of the       *)
(* instance.  operator new returns NULL when it has no memory; the call of *)
(* setEccSlot through that NULL is undefined: the program ends there or    *)
(* goes on.                                                                *)
(***************************************************************************)
\* the failures of the crypto chip on which begin returns 0: in ECCX08.begin,
\* readSlot, beginReconstruction or endReconstruction; "none" when all succeed
CryptoFailures == { "none", "begin", "readSlot", "beginReconstruction", "endReconstruction" }

\* delete p, an instance of heap h
Delete(h, p) == [h EXCEPT ![p] = IF @ = "live" THEN "deleted" ELSE "deleted twice"]

\* if (_bearSslClient) delete _bearSslClient;
DeleteIfSet(h, p) == IF p # NULL THEN Delete(h, p) ELSE h

\* what *p is at a use: "null", "live" or "deleted"
Referred(h, p) == IF p = NULL THEN "null" ELSE h[p]

\* begin(net, brokerAddress) up to the re-initialisation of _bearSslClient:
\* it returns 0 when the crypto chip fails
begin_call ==
  /\ life_pc = "idle"
  /\ nbegins < MaxBegins
  /\ nbegins' = nbegins + 1
  /\ \E failure \in CryptoFailures :
       life_pc' = IF failure = "none" THEN "begin_delete" ELSE "idle"
  /\ UNCHANGED << heap, bearSslClient, mqttNet, beginUses >>
  /\ UNCHANGED << encodeVars, cloudVars >>

\* begin: if (_bearSslClient) delete _bearSslClient;
begin_delete ==
  /\ life_pc = "begin_delete"
  /\ heap' = DeleteIfSet(heap, bearSslClient)
  /\ life_pc' = "begin_new"
  /\ UNCHANGED << nbegins, bearSslClient, mqttNet, beginUses >>
  /\ UNCHANGED << encodeVars, cloudVars >>

\* begin: _bearSslClient = new BearSSLClient(net); _bearSslClient->setEccSlot
begin_new ==
  /\ life_pc = "begin_new"
  /\ \/ /\ heap' = Append(heap, "live")
        /\ bearSslClient' = Len(heap) + 1
        /\ life_pc' = "begin_use"
     \/ /\ heap' = heap
        /\ bearSslClient' = NULL
        /\ life_pc' \in { "trapped", "begin_use" }
  /\ UNCHANGED << nbegins, mqttNet, beginUses >>
  /\ UNCHANGED << encodeVars, cloudVars >>

\* begin: mqttClientBegin(*_bearSslClient), Thing.begin() and return 1
begin_use ==
  /\ life_pc = "begin_use"
  /\ beginUses' = Append(beginUses, Referred(heap, bearSslClient))
  /\ mqttNet' = bearSslClient
  /\ life_pc' = "idle"
  /\ UNCHANGED << nbegins, heap, bearSslClient >>
  /\ UNCHANGED << encodeVars, cloudVars >>

\* reconnect(net) up to the re-initialisation of _bearSslClient: a connected
\* client is disconnected (the loop turns until disconnect() succeeds)
reconnect_call ==
  /\ life_pc = "idle"
  /\ nbegins < MaxBegins
  /\ nbegins' = nbegins + 1
  /\ mqttConnected' = FALSE
  /\ life_pc' = "reconnect_delete"
  /\ UNCHANGED << heap, bearSslClient, mqttNet, beginUses >>
  /\ UNCHANGED << cloud_pc, nupdates, subscriptions, maxRetries, timeout, retries, elapsed,
                  result, attempts, entry, lost, polled, published, given, connectReturned >>
  /\ UNCHANGED encodeVars

\* reconnect_delete with the instance left as it is
reconnect_delete_Skipped ==
  /\ life_pc = "reconnect_delete"
  /\ heap' = heap
  /\ life_pc' = "reconnect_new"
  /\ UNCHANGED << nbegins, bearSslClient, mqttNet, beginUses >>
  /\ UNCHANGED << encodeVars, cloudVars >>

\* reconnect: if (_bearSslClient) delete _bearSslClient;
reconnect_delete ==
  /\ life_pc = "reconnect_delete"
  /\ heap' = DeleteIfSet(heap, bearSslClient)
  /\ life_pc' = "reconnect_new"
  /\ UNCHANGED << nbegins, bearSslClient, mqttNet, beginUses >>
  /\ UNCHANGED << encodeVars, cloudVars >>

\* reconnect: _bearSslClient = new BearSSLClient(net); _bearSslClient->setEccSlot
reconnect_new ==
  /\ life_pc = "reconnect_new"
  /\ \/ /\ heap' = Append(heap, "live")
        /\ bearSslClient' = Len(heap) + 1
        /\ life_pc' = "reconnect_use"
     \/ /\ heap' = heap
        /\ bearSslClient' = NULL
        /\ life_pc' \in { "trapped", "reconnect_use" }
  /\ UNCHANGED << nbegins, mqttNet, beginUses >>
  /\ UNCHANGED << encodeVars, cloudVars >>

\* reconnect: mqttClientBegin(*_bearSslClient) and return connect()
reconnect_use ==
  /\ life_pc = "reconnect_use"
  /\ beginUses' = Append(beginUses, Referred(heap, bearSslClient))
  /\ mqttNet' = bearSslClient
  /\ \E ok \in BOOLEAN :
       /\ mqttConnected' = connect(subscriptions, ok).connected
       /\ subscriptions' = connect(subscriptions, ok).subscriptions
       /\ attempts' = Append(attempts, ok)
       /\ connectReturned' = connect(subscriptions, ok).returns
  /\ life_pc' = "idle"
  /\ UNCHANGED << nbegins, heap, bearSslClient >>
  /\ UNCHANGED << cloud_pc, nupdates, maxRetries, timeout, retries, elapsed, result, entry,
                  lost, polled, published, given >>
  /\ UNCHANGED encodeVars

\* ~ArduinoIoTCloudClass()
destroy ==
  /\ life_pc = "idle"
  /\ heap' = DeleteIfSet(heap, bearSslClient)
  /\ bearSslClient' = NULL
  /\ life_pc' = "destroyed"
  /\ UNCHANGED << nbegins, mqttNet, beginUses >>
  /\ UNCHANGED << encodeVars, cloudVars >>

NextLife ==
  \/ begin_call
  \/ begin_delete
  \/ begin_new
  \/ begin_use
  \/ reconnect_call
  \/ reconnect_delete
  \/ reconnect_new
  \/ reconnect_use
  \/ destroy
  \/ connection_lost

SpecLife == Init /\ [][NextLife]_vars

(***************************************************************************)
(* Properties                                                              *)
(***************************************************************************)
PhaseOrder == << "EncodeTag", "EncodeArray", "EncodeParam", "CloseArray" >>

IsPrefix(s, t) == Len(s) <= Len(t) /\ SubSeq(t, 1, Len(s)) = s

\* C1: in every call the handlers run as a prefix of EncodeTag, EncodeArray,
\* EncodeParam, CloseArray (none skipped, repeated or out of order); a call
\* that returns Complete has run all four, and its output starts with the tag,
\* followed by the array header, followed by the parameters.
C1_FourPhasesInOrder ==
  /\ IsPrefix(phases, PhaseOrder)
  /\ status = "Complete" =>
       /\ phases = PhaseOrder
       /\ \E tag \in toCBORCommandTag(message.id) :
            LET t == HeadBytes(tag, TagType)
                a == HeadBytes(U64(declared), ArrayType)
            IN  /\ SubSeq(data, 1, Len(t)) = t
                /\ SubSeq(data, Len(t) + 1, Len(t) + Len(a)) = a
                /\ \A i \in 1..Len(log) : log[i].err = CborNoError
                /\ Len(data) >= Len(t) + Len(a) + Len(log)

\* C1 witness: a call that wrote four parameters has returned Complete
C1_Witness ==
  /\ status = "Complete"
  /\ message.id = "OtaProgressCmdUpId"
  /\ Len(log) = 4

\* the element counts claim C2 lists
C2_ListedCount(msg) ==
  CASE msg.id \in { "OtaBeginUpId", "ThingBeginCmdId", "DeviceBeginCmdId", "ProvisioningStatus",
                    "ProvisioningUniqueHardwareId", "ProvisioningJWT",
                    "ProvisioningBLEMacAddress" } -> 1
    [] msg.id \in { "LastValuesBeginCmdId", "TimezoneCommandUpId" } -> 0
    [] msg.id = "OtaProgressCmdUpId" -> 4
    [] msg.id = "ProvisioningListWifiNetworks" -> 2 * msg.params.numDiscoveredWiFiNetworks

\* C2: for every id with an encoding the array is opened with the listed
\* count; after a parameter phase in which every write succeeded exactly that
\* many elements have been written (the array encoder expects no more and
\* has not been given too many), and the close phase that follows ends in
\* Complete, never in a mismatch.
C2_DeclaredEqualsWritten ==
  /\ (Len(phases) >= 2 /\ current_state # "MessageNotSupported") =>
       declared = C2_ListedCount(message)
  /\ (phases = SubSeq(PhaseOrder, 1, 3) /\ current_state = "CloseArray") =>
       /\ Len(log) = declared
       /\ \A i \in 1..Len(log) : log[i].err = CborNoError
       /\ arrayEncoder.remaining = 1
  /\ phases = PhaseOrder => current_state = "Complete"

\* C2 witness: the close phase has run on a Wi-Fi list of three networks
C2_Witness ==
  /\ phases = PhaseOrder
  /\ message.id = "ProvisioningListWifiNetworks"
  /\ message.params.numDiscoveredWiFiNetworks = 3
  /\ Len(log) = 6

\* the ids claim C2 lists as encoded; every other id has no encoding
EncodedIds ==
  { "OtaBeginUpId", "ThingBeginCmdId", "DeviceBeginCmdId", "ProvisioningStatus",
    "ProvisioningUniqueHardwareId", "ProvisioningJWT", "ProvisioningBLEMacAddress",
    "LastValuesBeginCmdId", "TimezoneCommandUpId", "OtaProgressCmdUpId",
    "ProvisioningListWifiNetworks" }

\* C3: a call with an id that has no encoding (its tag is an unknown-tag
\* sentinel, or it has no array-size rule) never returns Complete, whatever
\* the capacity: it returns Error, from the tag phase or from the array phase,
\* and leaves len as it was passed.
C3_NoEncodingNeverComplete ==
  message.id \notin EncodedIds =>
    /\ status # "Complete"
    /\ current_state # "Complete"
    /\ pc = "returned" =>
         /\ status = "Error"
         /\ len = capacity
         /\ \/ phases = << "EncodeTag" >>
            \/ phases = << "EncodeTag", "EncodeArray" >>

\* C3 witness: ThingUpdateCmdId, which has a tag and no array-size rule, has
\* been refused in the array phase with the largest buffer
C3_Witness ==
  /\ pc = "returned"
  /\ message.id = "ThingUpdateCmdId"
  /\ capacity = MaxCapacity
  /\ phases = << "EncodeTag", "EncodeArray" >>
  /\ status = "Error"

\* the id of the call resolves to no wire tag
TagUnresolved == toCBORCommandTag(message.id) \subseteq UnknownCmdTags

NeededBytes(msg, tag, ub) ==
  LET t == handle_EncodeTag(cbor_encoder_init(100000), << >>, tag)
      a == handle_EncodeArray(t.encoder, NoEncoder, t.data, msg)
      p == handle_EncodeParam(a.arrayEncoder, a.data, msg, ub)
      c == handle_CloseArray(a.encoder, p.arrayEncoder)
  IN  IF t.state = "EncodeArray" /\ a.state = "EncodeParam" /\ p.state = "CloseArray"
         /\ c.state = "Complete"
      THEN cbor_encoder_get_buffer_size(c.encoder)
      ELSE 0 - 1

\* C6: a call whose capacity is below the bytes the message needs (tag, array
\* header and all fields) returns Error; a call that returns Complete reports
\* in len the number of bytes written, which is the number the message needs
\* and at most the capacity passed in.
C6_CapacityRespected ==
  /\ status = "Complete" =>
       /\ len <= capacity
       /\ len = Len(data)
       /\ \E tag \in toCBORCommandTag(message.id) : \E ub \in ReadOutcomes(message) :
            len = NeededBytes(message, tag, ub)
  /\ (/\ pc = "returned"
      /\ \A tag \in toCBORCommandTag(message.id) : \A ub \in ReadOutcomes(message) :
           capacity < NeededBytes(message, tag, ub)) =>
       status = "Error"

\* C6 witness: a DeviceBeginCmd has been refused for a buffer one byte short
\* of the 10 bytes it needs
C6_Witness ==
  /\ pc = "returned"
  /\ message.id = "DeviceBeginCmdId"
  /\ strlen(message.params.lib_version, CHOOSE ub \in DefinedReads : TRUE) = 3
  /\ capacity = 9
  /\ status = "Error"

\* C7 as stated: the encoder never reads discoveredWifiNetworks at an index
\* of MAX_WIFI_NETWORKS or more and never declares more than
\* 2 * MAX_WIFI_NETWORKS elements.
C7_Original_BoundedByMax ==
  /\ \A k \in 1..Len(reads) : reads[k] < MAX_WIFI_NETWORKS
  /\ message.id = "ProvisioningListWifiNetworks" => declared <= 2 * MAX_WIFI_NETWORKS

\* the networks of the message the encoder can read inside the table
NetworksInTable(msg) ==
  IF msg.params.numDiscoveredWiFiNetworks < MAX_WIFI_NETWORKS
  THEN msg.params.numDiscoveredWiFiNetworks ELSE MAX_WIFI_NETWORKS

\* the characters of the C string at s
CStringOf(s) == SubSeq(s, 1, strlen(s, CHOOSE ub \in DefinedReads : TRUE))

\* C8: a ProvisioningListWifiNetworks message with n networks opens an array
\* of exactly 2 * n elements, and a parameter phase in which every write
\* succeeded has written 2 * n elements, element 2 * i the SSID of entry i as a
\* text string and element 2 * i + 1 its RSSI as an integer, for every entry i
\* of the table, in discovery order.
C8_WifiPairsInOrder ==
  (message.id = "ProvisioningListWifiNetworks" /\ Len(phases) >= 2) =>
    /\ declared = 2 * message.params.numDiscoveredWiFiNetworks
    /\ current_state \in { "CloseArray", "Complete" } =>
         /\ Len(log) = 2 * message.params.numDiscoveredWiFiNetworks
         /\ \A i \in 0..(NetworksInTable(message) - 1) :
              LET net == message.params.discoveredWifiNetworks[i + 1]
              IN  /\ log[2 * i + 1].fn = "text_string"
                  /\ log[2 * i + 1].bytes = CStringOf(net.SSID)
                  /\ log[2 * i + 1].length = Len(CStringOf(net.SSID))
                  /\ log[2 * i + 2].fn = "int"
                  /\ log[2 * i + 2].bytes = << net.RSSI >>
         /\ \A k \in 1..Len(log) : log[k].fn = IF k % 2 = 1 THEN "text_string" ELSE "int"

\* C8 witness: a list of three networks has been encoded, declared count 6
C8_Witness ==
  /\ status = "Complete"
  /\ message.id = "ProvisioningListWifiNetworks"
  /\ message.params.numDiscoveredWiFiNetworks = 3
  /\ declared = 6
  /\ Len(log) = 6

\* C9: a ProvisioningBLEMacAddress message is written as exactly one byte
\* string, of length 0 when all 6 bytes of macAddress are zero and of length
\* BLE_MAC_ADDRESS_SIZE, holding the address, when a byte is not zero.
C9_BleMacLength ==
  (message.id = "ProvisioningBLEMacAddress" /\ Len(phases) >= 3) =>
    LET mac == message.params.macAddress
        empty == \A i \in 1..BLE_MAC_ADDRESS_SIZE : mac[i] = 0
    IN  /\ Len(log) = 1
        /\ log[1].fn = "byte_string"
        /\ log[1].length = IF empty THEN 0 ELSE BLE_MAC_ADDRESS_SIZE
        /\ log[1].bytes = IF empty THEN << >> ELSE mac
        /\ status = "Complete" =>
             /\ len = 5 + 1 + 1 + log[1].length
             /\ data[7] = ByteStringType + log[1].length
             /\ SubSeq(data, 8, len) = log[1].bytes

\* C9 witness: an address with only its last byte set has been encoded
C9_Witness ==
  /\ status = "Complete"
  /\ message.id = "ProvisioningBLEMacAddress"
  /\ message.params.macAddress = << 0, 0, 0, 0, 0, 1 >>
  /\ log[1].length = BLE_MAC_ADDRESS_SIZE

\* C10 as stated: the unique hardware id is written as a byte string of
\* exactly UHWID_SIZE bytes and the provisioning JWT as one of exactly
\* PROVISIONING_JWT_SIZE bytes, wherever a 0 byte occurs in the field.
C10_Original_FixedSizePayloads ==
  /\ (message.id = "ProvisioningUniqueHardwareId" /\ Len(log) >= 1) =>
       /\ log[1].fn = "byte_string"
       /\ log[1].length = UHWID_SIZE
  /\ (message.id = "ProvisioningJWT" /\ Len(log) >= 1) =>
       /\ log[1].fn = "byte_string"
       /\ log[1].length = PROVISIONING_JWT_SIZE

\* C11 as stated: a call with the same message and the same capacity as the
\* first call, whatever calls were made in between, returns the same status,
\* the same length and the same bytes as the first call did.
C11_Original_SameCallSameResult ==
  (/\ pc = "returned"
   /\ first # NoResult
   /\ message = first.message
   /\ capacity = first.capacity) =>
    /\ status = first.status
    /\ len = first.len
    /\ data = first.data

\* what holds of C11: the calls agree whenever encoding the message reads
\* inside the arrays of the message only
C11_DefinedReadsAgree ==
  (/\ pc = "returned"
   /\ first # NoResult
   /\ message = first.message
   /\ capacity = first.capacity
   /\ ~ReadsPastArray(message)) =>
    /\ status = first.status
    /\ len = first.len
    /\ data = first.data

\* C12 as stated: every call ends with a definite status, Complete or Error,
\* for every message id, content and capacity: a call in progress is always
\* either running one of at most four handler turns or has returned, the loop
\* over the Wi-Fi networks makes at most 255 turns, and no call is left
\* without a status.
C12_Original_AlwaysDefiniteStatus ==
  /\ pc \in { "idle", "loop", "returned" }
  /\ Len(phases) <= 4
  /\ Len(reads) <= 255
  /\ pc = "returned" => status \in { "Complete", "Error" }
  /\ (pc = "loop" /\ Len(phases) = 4) => current_state \in { "Complete", "Error" }

\* what holds of C12: the state loop makes at most four handler turns, the
\* loop over the networks at most numDiscoveredWiFiNetworks turns, and a call
\* that returns returns Complete or Error
C12_FourTurnsAtMost ==
  /\ Len(phases) <= 4
  /\ Len(reads) <= 255
  /\ message.id = "ProvisioningListWifiNetworks" =>
       Len(reads) <= message.params.numDiscoveredWiFiNetworks
  /\ pc = "returned" => status \in { "Complete", "Error" }
  /\ (pc = "loop" /\ Len(phases) = 4) => current_state \in { "Complete", "Error" }

\* C13: len is assigned on the path that returns Complete only: while the
\* call runs and after a call that returned Error (or never returned) len is
\* the value passed in, also when bytes have been written; after Complete it
\* is the encoded size.
C13_LenOnlyOnComplete ==
  /\ pc \in { "loop", "trapped" } => len = capacity
  /\ (pc = "returned" /\ status = "Error") => len = capacity
  /\ (pc = "returned" /\ status = "Complete") =>
       /\ len = cbor_encoder_get_buffer_size(encoder)
       /\ len = Len(data)

\* C13 witness: a call has returned Error after writing bytes, fewer than the
\* capacity, and len is still the capacity
C13_Witness ==
  /\ pc = "returned"
  /\ status = "Error"
  /\ Len(data) > 0
  /\ cbor_encoder_get_buffer_size(encoder) > 0
  /\ cbor_encoder_get_buffer_size(encoder) < capacity
  /\ len = capacity

\* C14: an OtaBeginUp call with a capacity of 40 or more returns Complete;
\* its output is the 5 bytes of the tag 0x010000, the header of an array of 1
\* element, the header of a byte string of 32 bytes and the 32 bytes of sha,
\* and nothing else; len is 5 + 1 + 2 + 32.
C14_OtaBeginUpLayout ==
  (message.id = "OtaBeginUpId" /\ pc = "returned" /\ capacity >= 40) =>
    /\ status = "Complete"
    /\ declared = 1
    /\ Len(log) = 1
    /\ log[1].fn = "byte_string"
    /\ log[1].length = SHA256_SIZE
    /\ data = << 218, 0, 1, 0, 0, 129, 88, 32 >> \o message.params.sha
    /\ Len(message.params.sha) = SHA256_SIZE
    /\ len = 5 + 1 + 2 + SHA256_SIZE

\* C14 witness: an OtaBeginUp with a sha of 32 different bytes has been encoded
\* into a buffer of exactly 40 bytes
C14_Witness ==
  /\ pc = "returned"
  /\ status = "Complete"
  /\ message.id = "OtaBeginUpId"
  /\ message.params.sha[2] = 14
  /\ capacity = 40

\* C15: the parameter phase of an OtaProgressCmdUp writes id as a byte string
\* of 16 bytes, state as a simple value, state_data as a signed integer and
\* time as an unsigned integer, in this order, into an array of 4 elements;
\* the first write that fails is the last write made and the phase ends in
\* Error; when no write fails all four are made and the output is the tag, the
\* array header and the four fields in this order.
C15_ProgressFieldsInOrder ==
  (message.id = "OtaProgressCmdUpId" /\ Len(phases) >= 3) =>
    LET kinds == << "byte_string", "simple_value", "int", "uint" >>
        ota == message.params
        values == << ota.id, << ota.state >>, << ota.state_data >>, ota.time >>
        failed == \E k \in 1..Len(log) : log[k].err # CborNoError
    IN  /\ declared = 4
        /\ Len(log) \in 1..4
        /\ \A k \in 1..Len(log) : log[k].fn = kinds[k] /\ log[k].bytes = values[k]
        /\ log[1].length = ID_SIZE
        /\ \A k \in 1..(Len(log) - 1) : log[k].err = CborNoError
        /\ failed => current_state = "Error" /\ status # "Complete"
        /\ ~failed => Len(log) = 4 /\ current_state \in { "CloseArray", "Complete" }
        /\ status = "Complete" =>
             data = << 218, 0, 1, 2, 0, 132, 80 >> \o ota.id
                    \o HeadBytes(U64(ota.state), SimpleTypesType)
                    \o (IF ota.state_data < 0
                        THEN HeadBytes(U64((0 - 1) - ota.state_data), NegativeIntegerType)
                        ELSE HeadBytes(U64(ota.state_data), UnsignedIntegerType))
                    \o HeadBytes(ota.time, UnsignedIntegerType)

\* C15 witness: the write of state (25, not a simple value) has failed with
\* room left in the buffer, after id and before state_data and time
C15_Witness ==
  /\ message.id = "OtaProgressCmdUpId"
  /\ message.params.state = 25
  /\ capacity = MaxCapacity
  /\ Len(log) = 2
  /\ log[2].err = CborErrorIllegalSimpleType
  /\ current_state = "Error"

\* C16 as stated: a ProvisioningJWT call never reads past the jwt field (it
\* cannot end the program) and never writes a payload of more than
\* PROVISIONING_JWT_SIZE bytes, whatever the 246 bytes of jwt are.
C16_Original_JwtWithinField ==
  message.id = "ProvisioningJWT" =>
    /\ pc # "trapped"
    /\ \A k \in 1..Len(log) :
         /\ log[k].length <= PROVISIONING_JWT_SIZE
         /\ Len(log[k].bytes) <= PROVISIONING_JWT_SIZE

\* whether the array phase has a size for the id
ArrayPhaseAccepts(id) == ArraySizeOf(Message(id, CHOOSE p \in ParamsOf(id) : TRUE)).supported

\* whether the parameter phase has a case for the id
ParamPhaseAccepts(id) ==
  EncodeParamOf(Ctx(cbor_encoder_init(0), << >>),
                Message(id, CHOOSE p \in ParamsOf(id) : TRUE),
                CHOOSE ub \in DefinedReads : TRUE).supported

\* C17: the array phase and the parameter phase accept the same ids; the
\* parameter phase of a call whose array was opened never ends in
\* MessageNotSupported, which is entered from the array phase only.
C17_SamePhasesAccept ==
  /\ pc = "idle" => \A id \in CommandIds : ArrayPhaseAccepts(id) <=> ParamPhaseAccepts(id)
  /\ Len(phases) >= 3 => current_state # "MessageNotSupported"
  /\ current_state = "MessageNotSupported" => phases = << "EncodeTag", "EncodeArray" >>
  /\ (phases = << "EncodeTag", "EncodeArray" >> /\ current_state = "EncodeParam") =>
       /\ ArrayPhaseAccepts(message.id)
       /\ ParamPhaseAccepts(message.id)

\* C17 witness: the parameter phase has run on a ProvisioningBLEMacAddress,
\* the last case of both switches, and handed over to the close phase
C17_Witness ==
  /\ message.id = "ProvisioningBLEMacAddress"
  /\ phases = << "EncodeTag", "EncodeArray", "EncodeParam" >>
  /\ current_state = "CloseArray"

\* C18 as stated: when every one of the maxRetries connect attempts of an
\* update has failed (the client is still disconnected), mqttReconnect returns
\* false and update calls neither _mqttClient.loop() nor writeProperties.
C18_Original_NoPollWhenExhausted ==
  (/\ cloud_pc \in { "reconnected", "idle" }
   /\ nupdates > 0
   /\ Len(attempts) = maxRetries
   /\ \A k \in 1..Len(attempts) : ~attempts[k]) =>
    /\ result = "false"
    /\ ~polled
    /\ ~published

\* C19 as stated: when one of the connect attempts of mqttReconnect, whatever
\* its number in 1..maxRetries, has succeeded, the client has stayed connected
\* and the timeout has not elapsed when mqttReconnect returns, it returns true.
C19_Original_SuccessReturnsTrue ==
  (/\ cloud_pc = "reconnected"
   /\ \E k \in 1..Len(attempts) : attempts[k]
   /\ ~lost
   /\ elapsed < timeout) =>
    result = "true"

\* what holds of C19: a success of an attempt before the last allowed one
\* makes mqttReconnect return true
C19_EarlierSuccessReturnsTrue ==
  (/\ cloud_pc = "reconnected"
   /\ \E k \in 1..Len(attempts) : attempts[k]
   /\ Len(attempts) < maxRetries
   /\ ~lost
   /\ elapsed < timeout) =>
    result = "true"

\* C20: when the client is connected at the call of mqttReconnect and stays
\* so, and the timeout has not elapsed when it returns, mqttReconnect makes no
\* connect attempt, changes neither the client nor the subscriptions, leaves
\* retries at 0 and returns true.
C20_ConnectedReturnsTrue ==
  (/\ cloud_pc = "reconnected"
   /\ entry.connected
   /\ ~lost
   /\ elapsed < timeout) =>
    /\ maxRetries > 0
    /\ attempts = << >>
    /\ retries = 0
    /\ mqttConnected
    /\ subscriptions = entry.subscriptions
    /\ result = "true"

\* C20 witness: mqttReconnect has returned true from an update that found
\* the client connected by an earlier update
C20_Witness ==
  /\ cloud_pc = "reconnected"
  /\ nupdates >= 2
  /\ entry.connected
  /\ ~lost
  /\ elapsed < timeout
  /\ attempts = << >>
  /\ result = "true"

\* the step is a call of connect() made by mqttReconnect
ConnectAttempted == Len(attempts') = Len(attempts) + 1

\* C21, the limits in every state of an update: maxRetries and timeout are the
\* arguments when these are positive and the defaults MAX_RETRIES and
\* RECONNECTION_TIMEOUT when they are not, so both are positive, and the
\* connect attempts made are at most maxRetries.
C21_LimitsHold ==
  nupdates > 0 =>
    /\ maxRetries = IF given.reconnectionMaxRetries > 0 THEN given.reconnectionMaxRetries
                     ELSE MAX_RETRIES
    /\ timeout = IF given.reconnectionTimeoutMs > 0 THEN given.reconnectionTimeoutMs
                  ELSE RECONNECTION_TIMEOUT
    /\ maxRetries > 0
    /\ timeout > 0
    /\ Len(attempts) <= maxRetries

\* C21, each attempt: connect() is called only when the client is not
\* connected, fewer than maxRetries attempts have been made and the timeout
\* has not elapsed at the test of the loop; once mqttReconnect has returned,
\* the update makes no further attempt.
C21_AttemptOnlyWithinLimits ==
  ConnectAttempted =>
    /\ cloud_pc = "while"
    /\ ~mqttConnected
    /\ Len(attempts) < maxRetries
    /\ elapsed' < timeout

\* C21: one update makes at most maxRetries calls of connect(), none once
\* the client is connected, the limit is reached or the timeout has elapsed,
\* and maxRetries and timeout are always positive (the defaults replace
\* arguments that are not).
C21_BoundedAttempts == [](C21_LimitsHold) /\ [][C21_AttemptOnlyWithinLimits]_vars

\* C21 witness: an update called with maxRetries not positive has made all
\* MAX_RETRIES attempts and mqttReconnect has returned
C21_Witness ==
  /\ cloud_pc = "reconnected"
  /\ given.reconnectionMaxRetries <= 0
  /\ Len(attempts) = MAX_RETRIES
  /\ ~mqttConnected

\* C22, the subscriptions in every state: they have been made in pairs, the
\* stdin topic first and the data-in topic second.
C22_SubscribedInPairs ==
  /\ Len(subscriptions) % 2 = 0
  /\ \A k \in 1..Len(subscriptions) :
       subscriptions[k] = IF k % 2 = 1 THEN "_stdinTopic" ELSE "_dataTopicIn"

\* C22, each step: a call of connect() whose MQTT connect succeeded leaves
\* the client connected, has subscribed to the stdin topic and then to the
\* data-in topic, and returns 1; one whose MQTT connect failed has subscribed
\* to nothing and returns 0; no other step subscribes.
C22_ConnectThenSubscribe ==
  /\ ConnectAttempted =>
       LET ok == attempts'[Len(attempts')]
       IN  /\ ok => /\ mqttConnected'
                    /\ subscriptions' = subscriptions \o << "_stdinTopic", "_dataTopicIn" >>
                    /\ connectReturned' = 1
           /\ ~ok => /\ ~mqttConnected'
                     /\ subscriptions' = subscriptions
                     /\ connectReturned' = 0
  /\ subscriptions' # subscriptions => ConnectAttempted /\ attempts'[Len(attempts')]

\* C22: connect() subscribes to the stdin topic and then to the data-in
\* topic after a successful MQTT connect only, and returns 1 then; after a
\* failed MQTT connect it returns 0 and has subscribed to nothing.
C22_SubscribeAfterConnect == [](C22_SubscribedInPairs) /\ [][C22_ConnectThenSubscribe]_vars

\* C22 witness: a connect() has failed and the next one has succeeded: the
\* two topics are subscribed to once and connect() has returned 1
C22_Witness ==
  /\ attempts = << FALSE, TRUE >>
  /\ mqttConnected
  /\ subscriptions = << "_stdinTopic", "_dataTopicIn" >>
  /\ connectReturned = 1

\* the instances that are allocated and not deleted
LiveInstances == { i \in 1..Len(heap) : heap[i] = "live" }

\* C23: at most one BearSSLClient is live and it is the one _bearSslClient
\* refers to; no instance is deleted twice; when begin or reconnect
\* allocates, the instance before has been deleted; mqttClientBegin is never
\* given a deleted instance; outside the span from the delete to the new,
\* _bearSslClient is NULL or refers to a live instance; after the destructor
\* no instance is live and _bearSslClient is NULL.
C23_OneLiveClient ==
  /\ Cardinality(LiveInstances) <= 1
  /\ \A i \in 1..Len(heap) : heap[i] \in { "live", "deleted" }
  /\ \A k \in 1..Len(beginUses) : beginUses[k] \in { "live", "null" }
  /\ life_pc \in { "begin_new", "reconnect_new" } => LiveInstances = { }
  /\ life_pc \notin { "begin_new", "reconnect_new" } =>
       /\ bearSslClient # NULL => heap[bearSslClient] = "live"
       /\ LiveInstances \subseteq { bearSslClient }
  /\ life_pc = "destroyed" =>
       /\ LiveInstances = { }
       /\ bearSslClient = NULL

\* C23 witness: three instances have been allocated by begin and reconnect,
\* each handed to mqttClientBegin, and the destructor has run
C23_Witness ==
  /\ life_pc = "destroyed"
  /\ heap = << "deleted", "deleted", "deleted" >>
  /\ beginUses = << "live", "live", "live" >>
  /\ Len(attempts) \in 1..2

====
